---- MODULE Spec2Model ----
(***************************************************************************)
(* Elective recommender (app.py) and catalog builder                       *)
(* (create_knowledge_base.py).                                             *)
(*                                                                         *)
(* Strings that the code searches or slices are sequences of one-character *)
(* strings; strings that are only compared are TLA+ strings.  A missing    *)
(* value (pandas NaN, Python None as a cell) is the sequence NaN.          *)
(***************************************************************************)
EXTENDS Integers, Sequences, FiniteSets, TLC

VARIABLES COURSE_CATALOG, STUDENT_SESSIONS, request, response, uploaded

\* uploaded: the roll numbers under which parse_grade_card has saved a profile
\* (history of line 59); request: the request last handled; response: its answer
vars == <<COURSE_CATALOG, STUDENT_SESSIONS, request, response, uploaded>>

(***************************************************************************)
(* Bounds                                                                  *)
(***************************************************************************)
MaxRollLen == 4
MaxRows == 2
MaxCatalog == 6
MaxSemRows == 3
MaxSlotRows == 2
MaxTypeRows == 2

(***************************************************************************)
(* Characters and strings                                                  *)
(***************************************************************************)
UpperChars == <<"A","B","C","D","E","F","G","H","I","J","K","L","M",
                "N","O","P","Q","R","S","T","U","V","W","X","Y","Z">>
LowerChars == <<"a","b","c","d","e","f","g","h","i","j","k","l","m",
                "n","o","p","q","r","s","t","u","v","w","x","y","z">>
DigitChars == <<"0","1","2","3","4","5","6","7","8","9">>

NaN == <<"<NaN>">>

Range(s) == {s[i] : i \in 1..Len(s)}

LowerTable == [c \in Range(UpperChars) |-> LowerChars[CHOOSE i \in 1..26 : UpperChars[i] = c]]
DigitTable == [c \in Range(DigitChars) |-> (CHOOSE i \in 1..10 : DigitChars[i] = c) - 1]

IsUpper(c) == c \in DOMAIN LowerTable
IsDigit(c) == c \in DOMAIN DigitTable
DigitVal(c) == DigitTable[c]

\* str.lower() on one character
LowerChar(c) == IF IsUpper(c) THEN LowerTable[c] ELSE c
lower(s) == [i \in 1..Len(s) |-> LowerChar(s[i])]

\* str.startswith
startswith(s, prefix) ==
    /\ Len(s) >= Len(prefix)
    /\ \A i \in 1..Len(prefix) : s[i] = prefix[i]

(***************************************************************************)
(* Regular-expression search as pandas str.contains(pat, case=False,       *)
(* na=False) performs it, for patterns made of literal characters, the     *)
(* wildcard "." and the group opener "(" (which, never closed, makes the   *)
(* pattern fail to compile).                                               *)
(***************************************************************************)
re_compiles(pat) == \A i \in 1..Len(pat) : pat[i] # "("

re_match_at(s, i, pat) ==
    \A k \in 1..Len(pat) : pat[k] = "." \/ LowerChar(s[i + k - 1]) = LowerChar(pat[k])

re_search_ci(s, pat) == \E i \in 1..(Len(s) - Len(pat) + 1) : re_match_at(s, i, pat)

str_contains(cell, pat) == IF cell = NaN THEN FALSE ELSE re_search_ci(cell, pat)

\* the pattern '|'.join(coding_keywords): an alternation of literals
str_contains_any(cell, alternatives) ==
    \E k \in 1..Len(alternatives) : str_contains(cell, alternatives[k])

(***************************************************************************)
(* calculate_semester_and_year                                             *)
(***************************************************************************)
\* re.search(r'[A-Z]{2}(\d{2})', roll_no): positions where the pattern matches
roll_match_positions(roll_no) ==
    {i \in 1..(Len(roll_no) - 3) :
        /\ IsUpper(roll_no[i]) /\ IsUpper(roll_no[i + 1])
        /\ IsDigit(roll_no[i + 2]) /\ IsDigit(roll_no[i + 3])}

Min(S) == CHOOSE x \in S : \A y \in S : x <= y

calculate_semester_and_year(roll_no, now) ==
    LET pos == roll_match_positions(roll_no) IN
    IF pos = {} THEN [semester |-> 1, year |-> 1]
    ELSE LET i == Min(pos)
             entry_year == 2000 + 10 * DigitVal(roll_no[i + 2]) + DigitVal(roll_no[i + 3])
             current_year == now.year
             month == now.month
             year_diff == current_year - entry_year
             semester == year_diff * 2 + (IF month >= 7 THEN 1 ELSE 0)
         IN [semester |-> IF semester > 0 THEN semester ELSE 1,
             year |-> year_diff + 1]

(***************************************************************************)
(* load_knowledge_base: the CSV is unreadable (COURSE_CATALOG stays None)  *)
(* or read; a missing Description is filled with the empty string.         *)
(***************************************************************************)
None == [isNone |-> TRUE, rows |-> <<>>]

fillna(cell, value) == IF cell = NaN THEN value ELSE cell

load_knowledge_base(csv) ==
    IF ~csv.readable THEN None
    ELSE [isNone |-> FALSE,
          rows |-> [i \in 1..Len(csv.rows) |->
                      [csv.rows[i] EXCEPT !.Description =
                          IF csv.has_description THEN fillna(@, <<>>) ELSE <<>>]]]

(***************************************************************************)
(* parse_grade_card.  The transcript text is given by what each regular    *)
(* expression of the function captures in it: NoMatch where re.search      *)
(* returns None, the captured group otherwise, and the list of captured    *)
(* course rows.                                                            *)
(***************************************************************************)
NoMatch == <<"<no match>">>
NoMatchText == "<no match>"

\* float(): the capture [\d\.]+ is a float literal iff it has a digit and at most one dot
float_parses(s) ==
    /\ \E i \in 1..Len(s) : IsDigit(s[i])
    /\ Cardinality({i \in 1..Len(s) : s[i] = "."}) <= 1

RECURSIVE int_of(_)
int_of(s) == IF s = <<>> THEN 0
             ELSE 10 * int_of(SubSeq(s, 1, Len(s) - 1)) + DigitVal(s[Len(s)])

IsDigitChar(c) == IsDigit(c)

\* float(s) as mantissa and number of decimals
float_of(s) ==
    LET dots == {i \in 1..Len(s) : s[i] = "."}
        decimals == IF dots = {} THEN 0 ELSE Len(s) - Min(dots)
    IN [mantissa |-> int_of(SelectSeq(s, IsDigitChar)), decimals |-> decimals]

NotQuote(c) == c # "\""

course_entry(match) ==
    [course_no |-> match.course_no,
     title |-> SelectSeq(match.title, NotQuote),
     credits |-> IF match.credits # <<>> THEN int_of(match.credits) ELSE 0,
     grade |-> IF match.grade # "" THEN match.grade ELSE "N/A"]

\* lines 37-40: .group(1) on None, or float() on a malformed number, raises
parse_raises(text) ==
    \/ text.rollNo = NoMatch
    \/ text.name = NoMatchText
    \/ text.department = NoMatchText
    \/ text.cgpa = NoMatch
    \/ ~float_parses(text.cgpa)

parse_profile(text, now) ==
    [rollNo |-> text.rollNo,
     name |-> text.name,
     department |-> text.department,
     cgpa |-> float_of(text.cgpa),
     courses_taken |-> [i \in 1..Len(text.rows) |-> course_entry(text.rows[i])],
     semester |-> calculate_semester_and_year(text.rollNo, now).semester]

\* STUDENT_SESSIONS[key] = value
store(sessions, key, value) ==
    [k \in DOMAIN sessions \cup {key} |-> IF k = key THEN value ELSE sessions[k]]

(***************************************************************************)
(* generate_suggested_questions                                            *)
(***************************************************************************)
generate_suggested_questions(profile) ==
    LET humanities_count ==
            Cardinality({i \in 1..Len(profile.courses_taken) :
                            startswith(profile.courses_taken[i].course_no, <<"H","S">>)})
    IN <<"Suggest some 9 credit electives",
         IF humanities_count >= 2
         THEN "Show me more humanities electives in my free slots"
         ELSE "Suggest some humanities courses for me",
         "Find management electives">>

(***************************************************************************)
(* Responses.  structured is FALSE when the handler let an exception       *)
(* escape (the framework answers for it with its generic 500 page).        *)
(***************************************************************************)
NoResponse ==
    [status |-> 0, structured |-> TRUE, error |-> "", recommendations |-> <<>>,
     studentProfile |-> <<>>, suggestedQuestions |-> <<>>]

error_response(status, message) ==
    [NoResponse EXCEPT !.status = status, !.error = message]

unhandled_exception ==
    [NoResponse EXCEPT !.status = 500, !.structured = FALSE, !.error = "Internal Server Error"]

(***************************************************************************)
(* init_from_pdf                                                           *)
(***************************************************************************)
NoFile == [rollNo |-> NoMatch, name |-> "<no file>", department |-> "<no file>",
           cgpa |-> NoMatch, rows |-> <<>>]

\* dept_code_map.get(department, 'XX')
dept_code(department) ==
    CASE department = "Civil Engineering" -> "CE"
      [] department = "Aerospace Engineering" -> "AE"
      [] OTHER -> "XX"

ElectiveCategories == {"H", "M", "FRE", "MNS"}

SlotNaN == "<NaN>"

IsMandatoryFor(row, code, semester) ==
    /\ row.Department = code
    /\ row.Semester = semester
    /\ row.Category \notin ElectiveCategories

\* Series.dropna().unique().tolist()
RECURSIVE dropna_unique(_)
dropna_unique(slots) ==
    IF slots = <<>> THEN <<>>
    ELSE LET init == dropna_unique(SubSeq(slots, 1, Len(slots) - 1))
             last == slots[Len(slots)]
         IN IF last = SlotNaN \/ last \in Range(init) THEN init ELSE Append(init, last)

occupied_slots_of(catalog, profile) ==
    LET code == dept_code(profile.department)
        Mandatory(row) == IsMandatoryFor(row, code, profile.semester)
        mandatory_courses == SelectSeq(catalog.rows, Mandatory)
    IN dropna_unique([i \in 1..Len(mandatory_courses) |-> mandatory_courses[i].Slot])

with_occupied_slots(profile, occupied_slots) ==
    [k \in DOMAIN profile \cup {"occupied_slots"} |->
        IF k = "occupied_slots" THEN occupied_slots ELSE profile[k]]

init_from_pdf(has_file, text, now) ==
    /\ request' = [op |-> "init_from_pdf", has_file |-> has_file, text |-> text]
    /\ UNCHANGED COURSE_CATALOG
    /\ IF ~has_file
       THEN /\ response' = error_response(400, "No file part")
            /\ UNCHANGED <<STUDENT_SESSIONS, uploaded>>
       ELSE IF parse_raises(text)
       THEN /\ response' = error_response(500, "Failed to process PDF")
            /\ UNCHANGED <<STUDENT_SESSIONS, uploaded>>
       ELSE LET student_profile == parse_profile(text, now)
                saved == store(STUDENT_SESSIONS, student_profile.rollNo, student_profile)
            IN /\ uploaded' = uploaded \cup {student_profile.rollNo}
               /\ IF COURSE_CATALOG.isNone
                  THEN /\ response' = error_response(500, "Failed to process PDF")
                       /\ STUDENT_SESSIONS' = saved
                  ELSE LET final == with_occupied_slots(student_profile,
                                        occupied_slots_of(COURSE_CATALOG, student_profile))
                       IN /\ STUDENT_SESSIONS' = store(saved, final.rollNo, final)
                          /\ response' =
                               [NoResponse EXCEPT
                                   !.status = 200,
                                   !.studentProfile = <<final>>,
                                   !.suggestedQuestions = generate_suggested_questions(final)]

(***************************************************************************)
(* recommend_electives                                                     *)
(***************************************************************************)
Missing == <<"<missing>">>

HeadLimit == 5

coding_keywords ==
    << <<"p","r","o","g","r","a","m","m","i","n","g">>,
       <<"d","a","t","a">>,
       <<"a","l","g","o","r","i","t","h","m">>,
       <<"s","o","f","t","w","a","r","e">>,
       <<"c","o","m","p","u","t","i","n","g">>,
       <<"m","a","c","h","i","n","e"," ","l","e","a","r","n","i","n","g">> >>

\* DataFrame.head(n)
head(df, n) == SubSeq(df, 1, IF Len(df) < n THEN Len(df) ELSE n)

\* line 128
session_found(roll_no) ==
    /\ roll_no # Missing
    /\ roll_no # <<>>
    /\ roll_no \in DOMAIN STUDENT_SESSIONS

\* student_profile.get('occupied_slots', [])
get_occupied_slots(student_profile) ==
    IF "occupied_slots" \in DOMAIN student_profile THEN student_profile.occupied_slots ELSE <<>>

\* line 135
electives(catalog) ==
    LET IsElective(row) == row.Category \in ElectiveCategories
    IN SelectSeq(catalog.rows, IsElective)

\* lines 138-141
has_poor_coding_perf(student_profile) ==
    \E i \in 1..Len(student_profile.courses_taken) :
        /\ startswith(student_profile.courses_taken[i].course_no, <<"C","S">>)
        /\ student_profile.courses_taken[i].grade \in {"C", "D", "E"}

\* line 144
performance_gate(student_profile) ==
    /\ has_poor_coding_perf(student_profile)
    /\ student_profile.department \notin {"Computer Science", "AI & DS"}

\* mutant: the Description test is left out
performance_filter_name_only(results) ==
    LET Keep(row) == ~str_contains_any(row.Course_Name, coding_keywords)
    IN SelectSeq(results, Keep)

\* lines 148-151
performance_filter(results) ==
    LET Keep(row) == /\ ~str_contains_any(row.Course_Name, coding_keywords)
                     /\ ~str_contains_any(row.Description, coding_keywords)
    IN SelectSeq(results, Keep)

\* mutant: the search indexes the whole catalog instead of the remaining results
preference_filter_whole_catalog(results, query) ==
    LET Keep(row) == \/ str_contains(row.Course_Name, query)
                     \/ str_contains(row.CourseType, query)
                     \/ str_contains(row.Description, query)
    IN SelectSeq(COURSE_CATALOG.rows, Keep)

\* lines 155-159
preference_filter(results, query) ==
    LET Keep(row) == \/ str_contains(row.Course_Name, query)
                     \/ str_contains(row.CourseType, query)
                     \/ str_contains(row.Description, query)
    IN SelectSeq(results, Keep)

\* mutant: the negation of isin is left out
slot_filter_inverted(results, occupied_slots) ==
    LET Taken(row) == row.Slot \in Range(occupied_slots)
    IN SelectSeq(results, Taken)

\* line 162: Series.isin
slot_filter(results, occupied_slots) ==
    LET Free(row) == row.Slot \notin Range(occupied_slots)
    IN SelectSeq(results, Free)

\* lines 135-162 for a catalog that is loaded and a query that compiles
free_electives(catalog, student_profile, query) ==
    LET all == electives(catalog)
        gated == IF performance_gate(student_profile) THEN performance_filter(all) ELSE all
        searched == IF query # <<>> THEN preference_filter(gated, query) ELSE gated
    IN slot_filter(searched, get_occupied_slots(student_profile))

\* data.get('preference', '').lower()
query_of(data) == lower(IF data.preference = Missing THEN <<>> ELSE data.preference)

\* mutant: only "not roll_no" is tested, so an unknown roll number reaches
\* STUDENT_SESSIONS[roll_no] and its KeyError escapes the handler
recommend_electives_membership_unchecked(data) ==
    /\ request' = [op |-> "recommend_electives", data |-> data]
    /\ UNCHANGED <<COURSE_CATALOG, STUDENT_SESSIONS, uploaded>>
    /\ LET query == query_of(data)
           roll_no == data.rollNo
       IN IF roll_no = Missing \/ roll_no = <<>>
          THEN response' = error_response(400, "Session not found")
          ELSE IF roll_no \notin DOMAIN STUDENT_SESSIONS
          THEN response' = unhandled_exception
          ELSE IF COURSE_CATALOG.isNone
          THEN response' = unhandled_exception
          ELSE IF query # <<>> /\ ~re_compiles(query)
          THEN response' = unhandled_exception
          ELSE response' =
                 [NoResponse EXCEPT
                    !.status = 200,
                    !.recommendations =
                        head(free_electives(COURSE_CATALOG, STUDENT_SESSIONS[roll_no], query),
                             HeadLimit)]

recommend_electives(data) ==
    /\ request' = [op |-> "recommend_electives", data |-> data]
    /\ UNCHANGED <<COURSE_CATALOG, STUDENT_SESSIONS, uploaded>>
    /\ LET query == query_of(data)
           roll_no == data.rollNo
       IN IF ~session_found(roll_no)
          THEN response' = error_response(400, "Session not found")
          ELSE IF COURSE_CATALOG.isNone
          THEN response' = unhandled_exception
          ELSE IF query # <<>> /\ ~re_compiles(query)
          THEN response' = unhandled_exception
          ELSE response' =
                 [NoResponse EXCEPT
                    !.status = 200,
                    !.recommendations =
                        head(free_electives(COURSE_CATALOG, STUDENT_SESSIONS[roll_no], query),
                             HeadLimit)]

(***************************************************************************)
(* Inputs of the server specification                                      *)
(***************************************************************************)
SeqsUpTo(S, n) == UNION {[1..k -> S] : k \in 0..n}

Row(no, name, dept, sem, cat, type, slot, desc) ==
    [CourseNo |-> no, Course_Name |-> name, Department |-> dept, Semester |-> sem,
     Category |-> cat, CourseType |-> type, Slot |-> slot, Description |-> desc]

EData == Row("HS1010", <<"D","a","t","a">>, "HS", 1, "H", <<"H","u","m">>, "A", NaN)
EArt  == Row("MS2020", <<"A","r","t">>, "MS", 1, "M", NaN, SlotNaN, NaN)
EMany == Row("ID3030", <<"M","a","n","y">>, "ID", 1, "FRE", <<"F","r","e","e">>, "B",
             <<"D","A","T","A">>)
MLab  == Row("CE3010", <<"L","a","b">>, "CE", 6, "P", NaN, "A", NaN)
MNaN  == Row("CE3020", <<"L","a","b">>, "CE", 6, "P", NaN, SlotNaN, NaN)

CsvRows == {EData, EArt, EMany, MLab, MNaN}

Unreadable == [readable |-> FALSE, has_description |-> FALSE, rows |-> <<>>]

\* create_knowledge_base writes a CSV whose CourseNo values are distinct
DistinctCourseNo(rows) ==
    \A i, j \in 1..Len(rows) : rows[i].CourseNo = rows[j].CourseNo => i = j

\* a CSV without a Description column is tried with at most one row
CsvFiles ==
    {Unreadable} \cup
    {[readable |-> TRUE, has_description |-> TRUE, rows |-> r] :
        r \in {q \in SeqsUpTo(CsvRows, MaxRows) : DistinctCourseNo(q)}} \cup
    {[readable |-> TRUE, has_description |-> FALSE, rows |-> r] :
        r \in SeqsUpTo(CsvRows, 1)}

Roll1 == <<"C","E","2","1","B","0","0","1">>
Roll2 == <<"A","E","3","0","B","0","0","2">>

CourseRow(no, title, credits, grade) ==
    [course_no |-> no, title |-> title, credits |-> credits, grade |-> grade]

CS1100(grade) == CourseRow(<<"C","S","1","1","0","0">>, <<"I","n","t","r","o">>, <<"1","2">>, grade)
HS1010(grade) == CourseRow(<<"H","S","1","0","1","0">>, <<"\"","E","c","o">>, <<>>, grade)

Text(roll, name, dept, cgpa, rows) ==
    [rollNo |-> roll, name |-> name, department |-> dept, cgpa |-> cgpa, rows |-> rows]

Cgpa85 == <<"8",".","5">>

Transcripts ==
    { Text(Roll1, "JOHN SMITH", "Civil Engineering", Cgpa85, <<CS1100("C")>>),
      Text(Roll1, "JOHN SMITH", "Computer Science", Cgpa85, <<CS1100("D")>>),
      Text(Roll1, "JOHN SMITH", "Civil Engineering", Cgpa85, <<>>),
      Text(Roll2, "JANE DOE", "Aerospace Engineering", Cgpa85,
           <<CS1100("A"), HS1010("C"), HS1010("")>>),
      Text(Roll1, "JOHN SMITH", "Civil Engineering", NoMatch, <<CS1100("C")>>),
      Text(Roll1, "JOHN SMITH", "Civil Engineering", <<"8",".","5",".">>, <<>>),
      Text(NoMatch, "JOHN SMITH", "Civil Engineering", Cgpa85, <<>>),
      Text(Roll2, "JANE DOE", NoMatchText, Cgpa85, <<>>) }

Nows == {[year |-> 2024, month |-> 3], [year |-> 2024, month |-> 8]}

Preferences ==
    {Missing, <<>>, <<"a","n","y">>, <<"A",".","T">>, <<"(">>}

RollNos == {Missing, <<>>, Roll1, Roll2}

Requests == [preference : Preferences, rollNo : RollNos]

(***************************************************************************)
(* The server: state after import (lines 10, 11, 167), then any sequence   *)
(* of requests, each handled to completion.                                *)
(***************************************************************************)
Init ==
    /\ \E csv \in CsvFiles : COURSE_CATALOG = load_knowledge_base(csv)
    /\ STUDENT_SESSIONS = << >>
    /\ request = [op |-> "none"]
    /\ response = NoResponse
    /\ uploaded = {}

Upload ==
    \/ init_from_pdf(FALSE, NoFile, [year |-> 2024, month |-> 3])
    \/ \E text \in Transcripts, now \in Nows : init_from_pdf(TRUE, text, now)

Recommend == \E data \in Requests : recommend_electives(data)

Next == Upload \/ Recommend

Spec == Init /\ [][Next]_vars

(***************************************************************************)
(* Properties of the server                                                *)
(***************************************************************************)
Recommended == request.op = "recommend_electives" /\ response.status = 200

CurrentProfile == STUDENT_SESSIONS[request.data.rollNo]

StoredOccupiedSlots ==
    IF "occupied_slots" \in DOMAIN CurrentProfile THEN CurrentProfile.occupied_slots ELSE <<>>

IsElectiveRow(row) == row.Category \in {"H", "M", "FRE", "MNS"}

CatalogRows == Range(COURSE_CATALOG.rows)

\* C2: no recommended record has its slot among the occupied slots stored for
\* the requesting roll number, and the slot filter never drops a record whose
\* slot is null: with no preference and no course history (so that no earlier
\* stage removes anything) and fewer than 5 results, every elective with a
\* null slot is recommended.
SlotConflictFree ==
    Recommended =>
        /\ \A i \in 1..Len(response.recommendations) :
              response.recommendations[i].Slot \notin Range(StoredOccupiedSlots)
        /\ ( /\ query_of(request.data) = <<>>
             /\ CurrentProfile.courses_taken = <<>>
             /\ Len(response.recommendations) < HeadLimit )
           => \A row \in CatalogRows :
                 (IsElectiveRow(row) /\ row.Slot = SlotNaN)
                    => row \in Range(response.recommendations)

SlotConflictWitness ==
    /\ Recommended
    /\ StoredOccupiedSlots # <<>>
    /\ \E row \in CatalogRows :
          /\ IsElectiveRow(row)
          /\ row.Slot \in Range(StoredOccupiedSlots)
          /\ row \notin Range(response.recommendations)

WeakCodingCourse(course) ==
    /\ Len(course.course_no) >= 2
    /\ course.course_no[1] = "C"
    /\ course.course_no[2] = "S"
    /\ course.grade \in {"C", "D", "E"}

GateApplies(profile) ==
    /\ \E course \in Range(profile.courses_taken) : WeakCodingCourse(course)
    /\ profile.department # "Computer Science"
    /\ profile.department # "AI & DS"

\* case-insensitive substring test
ContainsText(cell, text) ==
    /\ cell # NaN
    /\ \E i \in 0..(Len(cell) - Len(text)) :
          \A k \in 1..Len(text) : LowerChar(cell[i + k]) = LowerChar(text[k])

Technical(row) ==
    \E kw \in Range(coding_keywords) :
        ContainsText(row.Course_Name, kw) \/ ContainsText(row.Description, kw)

\* C10: the performance gate applies exactly when the stored profile has a
\* course whose number starts with "CS" with a grade in {C, D, E} and the
\* department is not exempt; when it applies an elective is removed iff its
\* name or description contains a technical keyword, and otherwise (as for an
\* empty course history) nothing is removed.  Observed on requests without a
\* preference that return fewer than 5 records, over the electives whose slot
\* is free.
PerformanceGateExact ==
    (Recommended /\ query_of(request.data) = <<>>
        /\ Len(response.recommendations) < HeadLimit) =>
        \A row \in CatalogRows :
            (IsElectiveRow(row) /\ row.Slot \notin Range(StoredOccupiedSlots)) =>
                (row \in Range(response.recommendations)
                    <=> ~(GateApplies(CurrentProfile) /\ Technical(row)))

PerformanceGateWitness ==
    /\ Recommended
    /\ query_of(request.data) = <<>>
    /\ GateApplies(CurrentProfile)
    /\ response.recommendations # <<>>
    /\ \E row \in CatalogRows :
          /\ IsElectiveRow(row)
          /\ row.Slot \notin Range(StoredOccupiedSlots)
          /\ Technical(row)
          /\ ~ContainsText(row.Course_Name, <<"d","a","t","a">>)

\* the pipeline the claim describes: electives, minus technical records when
\* the gate applies, restricted by the preference unless it is empty or
\* "any", minus records in occupied slots
ReferencePipeline(catalog, profile, occupied, preference) ==
    LET Gated(row) == ~(GateApplies(profile) /\ Technical(row))
        Wanted(row) ==
            \/ preference = <<>>
            \/ lower(preference) = <<"a","n","y">>
            \/ ContainsText(row.Course_Name, preference)
            \/ ContainsText(row.CourseType, preference)
            \/ ContainsText(row.Description, preference)
        Keep(row) == /\ IsElectiveRow(row)
                     /\ Gated(row)
                     /\ Wanted(row)
                     /\ row.Slot \notin Range(occupied)
    IN SelectSeq(catalog.rows, Keep)

RequestedPreference ==
    IF request.data.preference = Missing THEN <<>> ELSE request.data.preference

\* C3: the returned list is the first 5, in catalog order, of the reference
\* pipeline, in which a preference of "any" filters nothing; it never has more
\* than 5 entries.
MatchesReferencePipeline ==
    Recommended =>
        /\ Len(response.recommendations) <= HeadLimit
        /\ response.recommendations =
              SubSeq(ReferencePipeline(COURSE_CATALOG, CurrentProfile, StoredOccupiedSlots,
                                       RequestedPreference),
                     1,
                     IF Len(ReferencePipeline(COURSE_CATALOG, CurrentProfile,
                                              StoredOccupiedSlots, RequestedPreference)) < HeadLimit
                     THEN Len(ReferencePipeline(COURSE_CATALOG, CurrentProfile,
                                                StoredOccupiedSlots, RequestedPreference))
                     ELSE HeadLimit)

\* C4: an upload answered with an error leaves the session store exactly as
\* it was, and no entry without occupied_slots is left in the store.
FailedUploadStoresNothing ==
    [][(request'.op = "init_from_pdf" /\ response'.status # 200) =>
        /\ STUDENT_SESSIONS' = STUDENT_SESSIONS
        /\ \A r \in DOMAIN STUDENT_SESSIONS' :
              "occupied_slots" \in DOMAIN STUDENT_SESSIONS'[r]]_vars

\* C6: with the catalog not loaded, an upload and a recommendation request for
\* a registered roll number are answered with a structured error and no
\* recommendation; no exception escapes the handler.
CatalogUnavailableIsReported ==
    (COURSE_CATALOG.isNone /\
        \/ request.op = "init_from_pdf" /\ request.has_file
        \/ request.op = "recommend_electives"
              /\ request.data.rollNo \in DOMAIN STUDENT_SESSIONS) =>
        /\ response.structured
        /\ response.status # 200
        /\ response.error # ""
        /\ response.recommendations = <<>>

\* C7: a transcript in which Roll No, Name and Department match and the
\* "average secured ... is" phrase does not is parsed and its profile is
\* saved (the catalog being loaded, the upload succeeds).
CgpaIsOptional ==
    (/\ request.op = "init_from_pdf"
     /\ request.has_file
     /\ request.text.rollNo # NoMatch
     /\ request.text.name # NoMatchText
     /\ request.text.department # NoMatchText
     /\ request.text.cgpa = NoMatch
     /\ ~COURSE_CATALOG.isNone) =>
        /\ response.status = 200
        /\ request.text.rollNo \in DOMAIN STUDENT_SESSIONS
        /\ STUDENT_SESSIONS[request.text.rollNo].name = request.text.name

(***************************************************************************)
(* The recommendation pipeline on long catalogs: one student, catalogs of  *)
(* up to MaxCatalog rows with distinct course numbers.                     *)
(***************************************************************************)
RecCourseNos == <<"EL01", "EL02", "EL03", "EL04", "EL05", "EL06", "EL07", "EL08", "EL09">>

RecKinds == {"art", "data", "lab"}

RecRow(i, kind) ==
    CASE kind = "art" ->
            Row(RecCourseNos[i], <<"A","r","t">>, "MS", 1, "M", NaN, SlotNaN, NaN)
      [] kind = "data" ->
            Row(RecCourseNos[i], <<"D","a","t","a">>, "HS", 1, "H", <<"H","u","m">>, "B", NaN)
      [] OTHER ->
            Row(RecCourseNos[i], <<"L","a","b">>, "CE", 6, "P", NaN, "B", NaN)

RecCsvFiles ==
    UNION {{[readable |-> TRUE, has_description |-> TRUE,
             rows |-> [i \in 1..n |-> RecRow(i, kinds[i])]] : kinds \in [1..n -> RecKinds]}
           : n \in 0..MaxCatalog}

RecTranscripts ==
    { Text(Roll1, "JOHN SMITH", "Civil Engineering", Cgpa85, <<CS1100("C")>>),
      Text(Roll1, "JOHN SMITH", "Mechanical Engineering", Cgpa85, <<>>) }

RecPreferences == {<<>>, <<"D","a","t","a">>}

InitRec ==
    /\ \E csv \in RecCsvFiles : COURSE_CATALOG = load_knowledge_base(csv)
    /\ STUDENT_SESSIONS = << >>
    /\ request = [op |-> "none"]
    /\ response = NoResponse
    /\ uploaded = {}

UploadRec ==
    \E text \in RecTranscripts : init_from_pdf(TRUE, text, [year |-> 2024, month |-> 3])

RecommendRec ==
    \E preference \in RecPreferences :
        recommend_electives([preference |-> preference, rollNo |-> Roll1])

NextRec == UploadRec \/ RecommendRec

SpecRec == InitRec /\ [][NextRec]_vars

\* what the same request returns with the empty preference, before and after
\* the truncation
UnfilteredSurvivors == free_electives(COURSE_CATALOG, CurrentProfile, <<>>)
UnfilteredOutput == head(UnfilteredSurvivors, HeadLimit)

\* C1 as stated: the records returned with a non-empty preference are among
\* the records returned with the empty preference, both after truncation.
PreferenceNarrowsOutput ==
    (Recommended /\ query_of(request.data) # <<>>) =>
        Range(response.recommendations) \subseteq Range(UnfilteredOutput)

\* C1 amended: the records returned with a non-empty preference are among the
\* records the empty preference leaves before its truncation, hence among the
\* records it returns whenever it leaves at most 5.
PreferenceNarrowsSurvivors ==
    (Recommended /\ query_of(request.data) # <<>>) =>
        /\ Range(response.recommendations) \subseteq Range(UnfilteredSurvivors)
        /\ Len(UnfilteredSurvivors) <= HeadLimit =>
              Range(response.recommendations) \subseteq Range(UnfilteredOutput)

PreferenceNarrowsWitness ==
    /\ Recommended
    /\ query_of(request.data) # <<>>
    /\ response.recommendations # <<>>
    /\ Len(UnfilteredSurvivors) > HeadLimit
    /\ Len(response.recommendations) < Len(UnfilteredSurvivors)

(***************************************************************************)
(* calculate_semester_and_year on arbitrary roll numbers and dates         *)
(***************************************************************************)
RollChars == {"C", "E", "2", "9"}

CalendarNows == [year : {2024, 2025}, month : {6, 7}]

\* the function is about to be called on an argument drawn at the start
InitCalendar ==
    /\ COURSE_CATALOG = None
    /\ STUDENT_SESSIONS = << >>
    /\ \E roll_no \in SeqsUpTo(RollChars, MaxRollLen), now \in CalendarNows :
          request = [op |-> "calculate_semester_and_year", roll_no |-> roll_no, now |-> now]
    /\ response = NoResponse
    /\ uploaded = {}

Returned == response # NoResponse

Calculate ==
    /\ ~Returned
    /\ response' = calculate_semester_and_year(request.roll_no, request.now)
    /\ UNCHANGED <<COURSE_CATALOG, STUDENT_SESSIONS, request, uploaded>>

SpecCalendar == InitCalendar /\ [][Calculate]_vars

HasEntryYearToken(roll_no) ==
    \E i \in 1..(Len(roll_no) - 3) :
        /\ roll_no[i] \in Range(UpperChars) /\ roll_no[i + 1] \in Range(UpperChars)
        /\ roll_no[i + 2] \in Range(DigitChars) /\ roll_no[i + 3] \in Range(DigitChars)

\* C8: semester and year are at least 1 for every roll number and date, and
\* both are 1 when the roll number has no 2-digit token after a 2-letter prefix.
SemesterAndYearPositive ==
    (request.op = "calculate_semester_and_year" /\ Returned) =>
        /\ response.semester >= 1
        /\ response.year >= 1
        /\ ~HasEntryYearToken(request.roll_no) => (response.semester = 1 /\ response.year = 1)

(***************************************************************************)
(* create_knowledge_base                                                   *)
(***************************************************************************)
TextNaN == "<NaN>"

RECURSIVE concat(_)
concat(frames) ==
    IF frames = <<>> THEN <<>>
    ELSE concat(SubSeq(frames, 1, Len(frames) - 1)) \o frames[Len(frames)]

\* pd.merge(left, right[[on] + columns], on=on, how='left'): the left rows in
\* order, each once per right row with the same key (in right order), or once
\* with the right columns missing when no right row has the key
merge_left(left, right, on, columns) ==
    concat([i \in 1..Len(left) |->
        LET Hit(r) == r[on] = left[i][on]
            hits == SelectSeq(right, Hit)
        IN IF hits = <<>> THEN <<left[i] @@ [c \in columns |-> TextNaN]>>
           ELSE [j \in 1..Len(hits) |-> left[i] @@ hits[j]]])

\* mutant: keep='last'
drop_duplicates_keep_last(df) ==
    LET positions == {i \in 1..Len(df) :
                        \A j \in (i + 1)..Len(df) : df[j].CourseNo # df[i].CourseNo}
        Nth(k) == CHOOSE i \in positions : Cardinality({j \in positions : j < i}) = k - 1
    IN [k \in 1..Cardinality(positions) |-> df[Nth(k)]]

\* DataFrame.drop_duplicates(subset='CourseNo', keep='first')
drop_duplicates(df) ==
    LET positions == {i \in 1..Len(df) :
                        \A j \in 1..(i - 1) : df[j].CourseNo # df[i].CourseNo}
        Nth(k) == CHOOSE i \in positions : Cardinality({j \in positions : j < i}) = k - 1
    IN [k \in 1..Cardinality(positions) |-> df[Nth(k)]]

Prereq(no, prerequisite) == [CourseNo |-> no, Prerequisite |-> prerequisite]

prerequisite_data ==
    << Prereq("AM1100", TextNaN),
       Prereq("AS2010", TextNaN),
       Prereq("AS2030", TextNaN),
       Prereq("AS2040", TextNaN),
       Prereq("AS2050", TextNaN),
       Prereq("AS2070", "AS2010"),
       Prereq("AS2080", "AM1100"),
       Prereq("# ... (and so on for all other prerequisites)", TextNaN),
       Prereq("CS3500", "CS2600;CS2700") >>

NoCatalog == [built |-> FALSE, final_df |-> <<>>]

create_knowledge_base(files_found, sem_wise_df, slotwise_df, course_type_df) ==
    IF ~files_found THEN NoCatalog
    ELSE LET merged == merge_left(sem_wise_df, slotwise_df, "CourseNo", {"Slot"})
             master_df == merge_left(merged, course_type_df, "Category", {"CourseType"})
             deduplicated == drop_duplicates(master_df)
             final_df == merge_left(deduplicated, prerequisite_data, "CourseNo",
                                    {"Prerequisite"})
         IN [built |-> TRUE, final_df |-> final_df]

SemRows == {[CourseNo |-> "AS2070", Category |-> "H"],
            [CourseNo |-> "AS2070", Category |-> "P"],
            [CourseNo |-> "HS1010", Category |-> "H"]}

SlotRows == {[CourseNo |-> "AS2070", Slot |-> "A"],
             [CourseNo |-> "AS2070", Slot |-> "B"]}

TypeRows == {[Category |-> "H", CourseType |-> "Humanities"],
             [Category |-> "H", CourseType |-> "Elective"]}

\* a run in which a source file is missing reads no table
Sources ==
    {[op |-> "create_knowledge_base", files_found |-> FALSE,
      sem_wise_df |-> <<>>, slotwise_df |-> <<>>, course_type_df |-> <<>>]} \cup
    [op : {"create_knowledge_base"}, files_found : {TRUE},
     sem_wise_df : SeqsUpTo(SemRows, MaxSemRows),
     slotwise_df : SeqsUpTo(SlotRows, MaxSlotRows),
     course_type_df : SeqsUpTo(TypeRows, MaxTypeRows)]

InitBuilder ==
    /\ COURSE_CATALOG = None
    /\ STUDENT_SESSIONS = << >>
    /\ request \in Sources
    /\ response = NoResponse
    /\ uploaded = {}

Build ==
    /\ ~Returned
    /\ response' = create_knowledge_base(request.files_found, request.sem_wise_df,
                                         request.slotwise_df, request.course_type_df)
    /\ UNCHANGED <<COURSE_CATALOG, STUDENT_SESSIONS, request, uploaded>>

SpecBuilder == InitBuilder /\ [][Build]_vars

\* the row the left joins produce first for a course number of the semester
\* table
FirstJoinedRow(sem, slots, types, no) ==
    LET first == sem[Min({i \in 1..Len(sem) : sem[i].CourseNo = no})]
        slotHits == {i \in 1..Len(slots) : slots[i].CourseNo = no}
        typeHits == {i \in 1..Len(types) : types[i].Category = first.Category}
    IN [CourseNo |-> no,
        Category |-> first.Category,
        Slot |-> IF slotHits # {} THEN slots[Min(slotHits)].Slot ELSE TextNaN,
        CourseType |-> IF typeHits # {} THEN types[Min(typeHits)].CourseType ELSE TextNaN]

WithoutPrerequisiteColumn(r) ==
    [CourseNo |-> r.CourseNo, Category |-> r.Category, Slot |-> r.Slot,
     CourseType |-> r.CourseType]

\* C9: the built catalog has pairwise distinct CourseNo values, no more rows
\* than the semester table, and for each CourseNo the row that comes first in
\* the order of the left joins.
CatalogDeduplicated ==
    (request.op = "create_knowledge_base" /\ Returned /\ response.built) =>
        LET out == response.final_df IN
        /\ \A i, j \in 1..Len(out) : out[i].CourseNo = out[j].CourseNo => i = j
        /\ Len(out) <= Len(request.sem_wise_df)
        /\ {out[i].CourseNo : i \in 1..Len(out)}
              = {request.sem_wise_df[i].CourseNo : i \in 1..Len(request.sem_wise_df)}
        /\ \A i \in 1..Len(out) :
              WithoutPrerequisiteColumn(out[i]) =
                  FirstJoinedRow(request.sem_wise_df, request.slotwise_df,
                                 request.course_type_df, out[i].CourseNo)

CatalogDeduplicatedWitness ==
    /\ request.op = "create_knowledge_base"
    /\ Returned
    /\ response.built
    /\ Len(response.final_df) = 2
    /\ Len(request.sem_wise_df) = 3
    /\ Len(request.slotwise_df) = 2
    /\ Len(request.course_type_df) = 2
    /\ request.sem_wise_df[1].CourseNo = "AS2070"
    /\ request.slotwise_df[1] # request.slotwise_df[2]
    /\ request.course_type_df[1] # request.course_type_df[2]

====
